---- MODULE Spec2Model ----
(***************************************************************************)
(* Model of the buddyhelp backend (src/index.js): the HTTP handlers that   *)
(* touch the "credits" and "user_meta" tables through the Supabase client. *)
(* Every `await` on a Supabase query is one storage round trip; a handler  *)
(* is a sequence of such round trips, and the handlers of different        *)
(* requests interleave between them.  The Supabase client returns          *)
(* {data, error} and does not throw; the handlers read `error` only after  *)
(* auth.signUp.  The app is Express 4 (app.options("*", ...)): an          *)
(* exception thrown inside an async handler is an unhandled rejection and  *)
(* the request gets no response.                                           *)
(***************************************************************************)
EXTENDS Integers, Sequences, FiniteSets, TLC

\* ------------------------------------------------------------------ bounds
MaxReqs == 3        \* requests that arrive in one run
MaxInit == 2        \* largest balance found in the table at start
MaxAmount == 1      \* largest `seconds` of an add-credits request

\* Two account ids: every ledger query is keyed by one user_id.
Accounts == {"A", "B"}
Amounts == 0..MaxAmount
NegativeAmounts == {0 - 1}
InitBalances == 0..MaxInit
NoUid == "-"

\* ------------------------------------------------------- values of the code
SignupStatusActive == "ACTIVE"
SignupStatus == "PENDING"
SignupCredits == 0
AdminStatus == "ACTIVE"
AdminCredits == 999999

VARIABLES
    credits,      \* table credits: user_id -> sequence of remaining_seconds, one per row
    user_meta,    \* table user_meta: id -> status, "NONE" when there is no row
    authUsers,    \* ids the auth provider has issued
    adminExists,  \* the auth provider knows the fixed admin e-mail
    uniqueKey,    \* does the credits table reject a second row for a user_id:
                  \* "yes" or "no", "unknown" until an insert first meets a row
    initial,      \* the credits table as it was when the server started
    reqs,         \* the requests being handled, in order of arrival
    last,         \* the request whose handler ended most recently
    stats,        \* per account: what has arrived and what has been answered
    nreq          \* how many requests have arrived

vars == <<credits, user_meta, authUsers, adminExists, uniqueKey, initial,
          reqs, last, stats, nreq>>

\* --------------------------------------------------------------- responses
NoResp == [kind |-> "none", val |-> 0]
Resp(k, v) == [kind |-> k, val |-> v]
NoData == [found |-> FALSE, remaining_seconds |-> 0]
Row(n) == [found |-> TRUE, remaining_seconds |-> n]

InFlightOn(u) == {i \in 1..Len(reqs) : reqs[i].uid = u}
Remove(seq, i) == [j \in 1..(Len(seq) - 1) |-> IF j < i THEN seq[j] ELSE seq[j + 1]]

\* --------------------------------------------------------- storage queries
\* .select(...).eq("user_id", u).single(): the row when exactly one matches,
\* otherwise data = null (and an error the handlers never look at).
SelectSingle(rows) == IF Len(rows) = 1 THEN Row(rows[1]) ELSE NoData

\* .update({remaining_seconds: v}).eq("user_id", u): every matching row.
UpdateRows(rows, v) == [i \in 1..Len(rows) |-> v]

\* .insert({user_id: u, remaining_seconds: v}): a new row; when a row exists
\* already, a table with a unique key on user_id returns an error (which the
\* handlers ignore) and one without it takes a second row.  The schema is
\* not part of the repository: both, fixed once it has shown.
InsertRow(rows, v, key) ==
    IF Len(rows) = 0 THEN {<<Append(rows, v), key>>}
    ELSE {<<rows, "yes">> : k \in {key} \cap {"yes", "unknown"}}
         \cup {<<Append(rows, v), "no">> : k \in {key} \cap {"no", "unknown"}}

\* ------------------------------------------------------------ handler code
ExhaustedBelowZero(data) == data.remaining_seconds < 0
\* /tick: if (data.remaining_seconds <= 0) return res.json({ exhausted: true })
Exhausted(data) == data.remaining_seconds <= 0

TickNoDecrement(data) == data.remaining_seconds
\* /tick: .update({ remaining_seconds: data.remaining_seconds - 1 })
TickNewValue(data) == data.remaining_seconds - 1

GrantOverwrite(data, seconds) == seconds
GrantSubtract(data, seconds) == data.remaining_seconds - seconds
\* /admin/add-credits: .update({ remaining_seconds: data.remaining_seconds + seconds })
GrantNewValue(data, seconds) == data.remaining_seconds + seconds

NoStats == [arrivedTicks |-> 0, arrivedGrants |-> 0, okTicks |-> 0, granted |-> 0,
            overlap |-> FALSE]

NewReq(k, u, s, first, rows) ==
    [kind |-> k, uid |-> u, seconds |-> s, pc |-> first, data |-> NoData,
     resp |-> NoResp, fault |-> FALSE, applied |-> FALSE,
     solo |-> (InFlightOn(u) = {}), pre |-> rows, post |-> <<>>, status |-> "NONE"]

Idle == NewReq("none", NoUid, 0, "idle", <<>>)

\* A request arrives: the handler runs up to its first await.
Arrive(k, u, s, first) ==
    /\ nreq < MaxReqs
    /\ nreq' = nreq + 1
    /\ reqs' = Append([i \in 1..Len(reqs) |->
                          IF i \in InFlightOn(u)
                          THEN [reqs[i] EXCEPT !.solo = FALSE] ELSE reqs[i]],
                      NewReq(k, u, s, first, credits[u]))
    /\ stats' = [stats EXCEPT
                   ![u].arrivedTicks = @ + (IF k = "tick" THEN 1 ELSE 0),
                   ![u].arrivedGrants = @ + (IF k = "grant" THEN 1 ELSE 0),
                   ![u].overlap = @ \/ InFlightOn(u) # {}]
    /\ UNCHANGED <<credits, user_meta, authUsers, adminExists, uniqueKey, initial, last>>

StartTick(u) == Arrive("tick", u, 0, "read")
StartGrant(u, s) == Arrive("grant", u, s, "read")
StartCredits(u) == Arrive("credits", u, 0, "read")

\* The handler of request i ends: with a response, or ("thrown") with an
\* exception that leaves the async handler and no response at all.
Finish(i, pc, resp, data, applied, rows) ==
    /\ last' = [reqs[i] EXCEPT !.pc = pc, !.resp = resp, !.data = data,
                               !.applied = applied, !.post = rows,
                               !.fault = @ \/ (pc = "failed")]
    /\ reqs' = Remove(reqs, i)
    /\ stats' = IF reqs[i].uid \notin Accounts THEN stats
                ELSE [stats EXCEPT
                        ![reqs[i].uid].okTicks =
                            @ + (IF resp = Resp("exhausted", 0) THEN 1 ELSE 0),
                        ![reqs[i].uid].granted =
                            @ + (IF resp.kind = "Credits added"
                                 THEN reqs[i].seconds ELSE 0)]

\* POST /tick, the select and the test of its result.
TickRead(i) ==
    /\ i \in 1..Len(reqs)
    /\ reqs[i].kind = "tick" /\ reqs[i].pc = "read"
    /\ LET u == reqs[i].uid
           data == SelectSingle(credits[u])
       IN  IF ~data.found
           THEN \* data is null: data.remaining_seconds throws inside the async handler
                Finish(i, "thrown", NoResp, data, FALSE, credits[u])
           ELSE IF Exhausted(data)
           THEN Finish(i, "done", Resp("exhausted", 1), data, FALSE, credits[u])
           ELSE /\ reqs' = [reqs EXCEPT ![i].pc = "write", ![i].data = data]
                /\ UNCHANGED <<last, stats>>
    /\ UNCHANGED <<credits, user_meta, authUsers, adminExists, uniqueKey, initial, nreq>>

TickWriteNoFilter(i) ==
    /\ i \in 1..Len(reqs)
    /\ reqs[i].kind = "tick" /\ reqs[i].pc = "write"
    /\ LET u == reqs[i].uid
       IN  /\ credits' = [a \in Accounts |->
                            UpdateRows(credits[a], TickNewValue(reqs[i].data))]
           /\ Finish(i, "done", Resp("exhausted", 0), reqs[i].data, TRUE, credits'[u])
    /\ UNCHANGED <<user_meta, authUsers, adminExists, uniqueKey, initial, nreq>>

\* POST /tick, the update and the response.
TickWrite(i) ==
    /\ i \in 1..Len(reqs)
    /\ reqs[i].kind = "tick" /\ reqs[i].pc = "write"
    /\ LET u == reqs[i].uid
       IN  /\ credits' = [credits EXCEPT ![u] = UpdateRows(@, TickNewValue(reqs[i].data))]
           /\ Finish(i, "done", Resp("exhausted", 0), reqs[i].data, TRUE, credits'[u])
    /\ UNCHANGED <<user_meta, authUsers, adminExists, uniqueKey, initial, nreq>>

\* POST /admin/add-credits, the select.
GrantRead(i) ==
    /\ i \in 1..Len(reqs)
    /\ reqs[i].kind = "grant" /\ reqs[i].pc = "read"
    /\ reqs' = [reqs EXCEPT ![i].pc = "write",
                            ![i].data = SelectSingle(credits[reqs[i].uid])]
    /\ UNCHANGED <<credits, user_meta, authUsers, adminExists, uniqueKey, initial,
                   last, stats, nreq>>

\* POST /admin/add-credits, the insert or the update, and the response.
GrantWrite(i) ==
    /\ i \in 1..Len(reqs)
    /\ reqs[i].kind = "grant" /\ reqs[i].pc = "write"
    /\ LET u == reqs[i].uid
           data == reqs[i].data
       IN  /\ IF ~data.found
              THEN \E o \in InsertRow(credits[u], reqs[i].seconds, uniqueKey) :
                      /\ credits' = [credits EXCEPT ![u] = o[1]]
                      /\ uniqueKey' = o[2]
              ELSE /\ credits' = [credits EXCEPT ![u] =
                         UpdateRows(@, GrantNewValue(data, reqs[i].seconds))]
                   /\ UNCHANGED uniqueKey
           /\ Finish(i, "done", Resp("Credits added", 0), data,
                     data.found \/ Len(credits'[u]) > Len(credits[u]), credits'[u])
    /\ UNCHANGED <<user_meta, authUsers, adminExists, initial, nreq>>

\* GET /credits/:uid
CreditsRead(i) ==
    /\ i \in 1..Len(reqs)
    /\ reqs[i].kind = "credits" /\ reqs[i].pc = "read"
    /\ LET u == reqs[i].uid
           data == SelectSingle(credits[u])
       IN  IF ~data.found
           THEN \* data is null: data.remaining_seconds throws
                Finish(i, "thrown", NoResp, data, FALSE, credits[u])
           ELSE Finish(i, "done", Resp("remaining", data.remaining_seconds), data,
                       FALSE, credits[u])
    /\ UNCHANGED <<credits, user_meta, authUsers, adminExists, uniqueKey, initial, nreq>>

\* The table holds a balance for account "A" or no row for it; "B" has no
\* row and no account yet.
Init ==
    /\ \E b \in {<<>>} \cup {<<n>> : n \in InitBalances} :
          credits = [a \in Accounts |-> IF a = "A" THEN b ELSE <<>>]
    /\ user_meta = [a \in Accounts |-> IF credits[a] = <<>> THEN "NONE" ELSE "ACTIVE"]
    /\ authUsers = {a \in Accounts : credits[a] # <<>>}
    /\ adminExists = FALSE
    /\ uniqueKey = "unknown"
    /\ initial = credits
    /\ reqs = <<>>
    /\ last = Idle
    /\ stats = [a \in Accounts |-> NoStats]
    /\ nreq = 0

\* The ledger under valid requests and a storage that answers.
Next ==
    \/ \E u \in Accounts : StartTick(u)
    \/ \E u \in Accounts, s \in Amounts : StartGrant(u, s)
    \/ \E u \in Accounts : StartCredits(u)
    \/ \E i \in 1..MaxReqs : TickRead(i)
    \/ \E i \in 1..MaxReqs : TickWrite(i)
    \/ \E i \in 1..MaxReqs : GrantRead(i)
    \/ \E i \in 1..MaxReqs : GrantWrite(i)
    \/ \E i \in 1..MaxReqs : CreditsRead(i)

Spec == Init /\ [][Next]_vars

\* ------------------------------------------------------- account creation
\* An id the auth provider has not issued: no row, no request names it.
Fresh(u) ==
    /\ u \in Accounts \ authUsers
    /\ credits[u] = <<>> /\ user_meta[u] = "NONE" /\ InFlightOn(u) = {}

StartCreation(k) ==
    /\ nreq < MaxReqs
    /\ nreq' = nreq + 1
    /\ reqs' = Append(reqs, NewReq(k, NoUid, 0, "signUp", <<>>))
    /\ UNCHANGED <<credits, user_meta, authUsers, adminExists, uniqueKey, initial,
                   last, stats>>

StartSignup == StartCreation("signup")
StartCreateAdmin == StartCreation("createAdmin")

\* supabase.auth.signUp: an error (400), or a new user with a fresh id.
AuthSignUp(i, k, isAdmin) ==
    /\ i \in 1..Len(reqs)
    /\ reqs[i].kind = k /\ reqs[i].pc = "signUp"
    /\ \/ /\ Finish(i, "done", Resp("error", 400), NoData, FALSE, <<>>)
          /\ UNCHANGED <<authUsers, adminExists>>
       \/ /\ ~(isAdmin /\ adminExists)
          /\ \E u \in Accounts :
                /\ Fresh(u)
                /\ authUsers' = authUsers \cup {u}
                /\ reqs' = [reqs EXCEPT ![i].uid = u, ![i].pc = "insertMeta"]
          /\ adminExists' = (adminExists \/ isAdmin)
          /\ UNCHANGED <<last, stats>>
    /\ UNCHANGED <<credits, user_meta, uniqueKey, initial, nreq>>

\* supabaseAdmin.from("user_meta").insert([{ id, ..., status }])
InsertMeta(i, k, status) ==
    /\ i \in 1..Len(reqs)
    /\ reqs[i].kind = k /\ reqs[i].pc = "insertMeta"
    /\ LET u == reqs[i].uid
       IN  /\ user_meta' = [user_meta EXCEPT ![u] = IF @ = "NONE" THEN status ELSE @]
           /\ reqs' = [reqs EXCEPT ![i].pc = "insertCredits", ![i].status = user_meta'[u]]
    /\ UNCHANGED <<credits, authUsers, adminExists, uniqueKey, initial, last, stats, nreq>>

\* supabaseAdmin.from("credits").insert([{ user_id, remaining_seconds }]), the response
InsertCredits(i, k, seconds, message) ==
    /\ i \in 1..Len(reqs)
    /\ reqs[i].kind = k /\ reqs[i].pc = "insertCredits"
    /\ LET u == reqs[i].uid
       IN  /\ \E o \in InsertRow(credits[u], seconds, uniqueKey) :
                 /\ credits' = [credits EXCEPT ![u] = o[1]]
                 /\ uniqueKey' = o[2]
           /\ Finish(i, "done", Resp(message, 0), NoData,
                     Len(credits'[u]) > Len(credits[u]), credits'[u])
    /\ UNCHANGED <<user_meta, authUsers, adminExists, initial, nreq>>

\* POST /signup
SignupAuth(i) == AuthSignUp(i, "signup", FALSE)
SignupMeta(i) == InsertMeta(i, "signup", SignupStatus)
SignupInsertCredits(i) == InsertCredits(i, "signup", SignupCredits, "Account created")

\* POST /create-admin
AdminAuth(i) == AuthSignUp(i, "createAdmin", TRUE)
AdminMeta(i) == InsertMeta(i, "createAdmin", AdminStatus)
AdminInsertCredits(i) == InsertCredits(i, "createAdmin", AdminCredits, "success")

\* Account creation, next to the one other handler that inserts credits rows.
NextAccounts ==
    \/ \E u \in Accounts, s \in Amounts : StartGrant(u, s)
    \/ \E i \in 1..MaxReqs : GrantRead(i)
    \/ \E i \in 1..MaxReqs : GrantWrite(i)
    \/ StartSignup
    \/ StartCreateAdmin
    \/ \E i \in 1..MaxReqs : SignupAuth(i)
    \/ \E i \in 1..MaxReqs : SignupMeta(i)
    \/ \E i \in 1..MaxReqs : SignupInsertCredits(i)
    \/ \E i \in 1..MaxReqs : AdminAuth(i)
    \/ \E i \in 1..MaxReqs : AdminMeta(i)
    \/ \E i \in 1..MaxReqs : AdminInsertCredits(i)

SpecAccounts == Init /\ [][NextAccounts]_vars

\* ------------------------------------------------- requests with seconds < 0
NextInvalid ==
    \/ Next
    \/ \E u \in Accounts, s \in NegativeAmounts : StartGrant(u, s)

SpecInvalid == Init /\ [][NextInvalid]_vars

\* --------------------------------------------------------- storage failures
\* A query that fails returns {data: null, error}; nothing is written.

\* POST /tick, the select fails: data is null and data.remaining_seconds throws.
TickReadFail(i) ==
    /\ i \in 1..Len(reqs)
    /\ reqs[i].kind = "tick" /\ reqs[i].pc = "read"
    /\ Finish(i, "failed", NoResp, NoData, FALSE, credits[reqs[i].uid])
    /\ UNCHANGED <<credits, user_meta, authUsers, adminExists, uniqueKey, initial, nreq>>

\* POST /tick, the update fails: the error is not read, the response is sent.
TickWriteFail(i) ==
    /\ i \in 1..Len(reqs)
    /\ reqs[i].kind = "tick" /\ reqs[i].pc = "write"
    /\ Finish(i, "failed", Resp("exhausted", 0), reqs[i].data, FALSE,
              credits[reqs[i].uid])
    /\ UNCHANGED <<credits, user_meta, authUsers, adminExists, uniqueKey, initial, nreq>>

\* POST /admin/add-credits, the select fails: data is null, the insert branch is taken.
GrantReadFail(i) ==
    /\ i \in 1..Len(reqs)
    /\ reqs[i].kind = "grant" /\ reqs[i].pc = "read"
    /\ reqs' = [reqs EXCEPT ![i].pc = "write", ![i].data = NoData, ![i].fault = TRUE]
    /\ UNCHANGED <<credits, user_meta, authUsers, adminExists, uniqueKey, initial,
                   last, stats, nreq>>

\* POST /admin/add-credits, the insert or update fails: the response is sent.
GrantWriteFail(i) ==
    /\ i \in 1..Len(reqs)
    /\ reqs[i].kind = "grant" /\ reqs[i].pc = "write"
    /\ Finish(i, "failed", Resp("Credits added", 0), reqs[i].data, FALSE,
              credits[reqs[i].uid])
    /\ UNCHANGED <<credits, user_meta, authUsers, adminExists, uniqueKey, initial, nreq>>

\* GET /credits/:uid, the select fails: data is null and data.remaining_seconds throws.
CreditsReadFail(i) ==
    /\ i \in 1..Len(reqs)
    /\ reqs[i].kind = "credits" /\ reqs[i].pc = "read"
    /\ Finish(i, "failed", NoResp, NoData, FALSE, credits[reqs[i].uid])
    /\ UNCHANGED <<credits, user_meta, authUsers, adminExists, uniqueKey, initial, nreq>>

NextFault ==
    \/ Next
    \/ \E i \in 1..MaxReqs : TickReadFail(i)
    \/ \E i \in 1..MaxReqs : TickWriteFail(i)
    \/ \E i \in 1..MaxReqs : GrantReadFail(i)
    \/ \E i \in 1..MaxReqs : GrantWriteFail(i)
    \/ \E i \in 1..MaxReqs : CreditsReadFail(i)

SpecFault == Init /\ [][NextFault]_vars

\* ================================================================== claims
Min(x, y) == IF x <= y THEN x ELSE y
Settled(a) == InFlightOn(a) = {}
HasInitial(a) == Len(initial[a]) = 1
Requests == {reqs[i] : i \in 1..Len(reqs)} \cup {last}

\* C1: K concurrent Ticks (1 <= K <= N, no Grant) on an account with initial
\* balance N leave exactly N - K once all have completed, and exactly K of
\* them returned exhausted = false.
C1_ConcurrentTicks ==
    \A a \in Accounts :
        (/\ HasInitial(a) /\ Settled(a)
         /\ stats[a].arrivedGrants = 0
         /\ stats[a].arrivedTicks >= 1
         /\ stats[a].arrivedTicks <= initial[a][1])
        => /\ credits[a] = <<initial[a][1] - stats[a].arrivedTicks>>
           /\ stats[a].okTicks = stats[a].arrivedTicks

\* C2: one Grant(a) and one Tick on the same account with balance N > 0,
\* under any interleaving, leave exactly N + a - 1.
C2_TickGrantLinearizable ==
    \A a \in Accounts :
        (/\ HasInitial(a) /\ Settled(a)
         /\ initial[a][1] > 0
         /\ stats[a].arrivedGrants = 1
         /\ stats[a].arrivedTicks = 1)
        => credits[a] = <<initial[a][1] + stats[a].granted - 1>>

\* C3: every stored remaining_seconds is >= 0 and every balance returned by
\* GET /credits/:uid is >= 0, under any interleaving of Ticks and of Grants
\* with non-negative amounts.
C3_NonNegative ==
    /\ \A a \in Accounts : \A j \in 1..Len(credits[a]) : credits[a][j] >= 0
    /\ (last.kind = "credits" /\ last.pc = "done") => last.resp.val >= 0

C3_Witness ==
    /\ last.kind = "credits" /\ last.pc = "done" /\ last.resp.val = 0
    /\ stats[last.uid].overlap
    /\ stats[last.uid].okTicks >= 1

\* C4: a Tick with no concurrent call on its account returns exhausted = true
\* and leaves the balance when it is <= 0, and returns exhausted = false and
\* leaves N - 1 when it is N > 0; so of T sequential Ticks from balance N with
\* no grants min(N, T) return exhausted = false and the balance ends at
\* N - min(N, T).
C4_SingleTick ==
    /\ (last.kind = "tick" /\ last.solo /\ Len(last.pre) = 1)
       => IF last.pre[1] <= 0
          THEN last.resp = Resp("exhausted", 1) /\ last.post = last.pre
          ELSE last.resp = Resp("exhausted", 0) /\ last.post = <<last.pre[1] - 1>>
    /\ \A a \in Accounts :
          (/\ HasInitial(a) /\ Settled(a)
           /\ ~stats[a].overlap
           /\ stats[a].arrivedGrants = 0)
          => /\ stats[a].okTicks = Min(initial[a][1], stats[a].arrivedTicks)
             /\ credits[a] = <<initial[a][1] - stats[a].okTicks>>

C4_Witness ==
    /\ initial["A"] = <<MaxInit>>
    /\ stats["A"].arrivedTicks = MaxInit + 1
    /\ ~stats["A"].overlap /\ Settled("A")
    /\ last.kind = "tick" /\ last.solo
    /\ last.resp = Resp("exhausted", 1)
    /\ credits["A"] = <<0>>

\* C5: a Grant of amount >= 0 with no concurrent call on its account leaves
\* N + amount on a record of value N, and creates a record of value amount
\* when there is none; a second Grant adds again.
C5_SingleGrant ==
    /\ (last.kind = "grant" /\ last.solo /\ Len(last.pre) <= 1)
       => /\ last.resp.kind = "Credits added"
          /\ last.post = IF Len(last.pre) = 1
                         THEN <<last.pre[1] + last.seconds>>
                         ELSE <<last.seconds>>
    /\ \A a \in Accounts :
          (/\ initial[a] = <<>> /\ Settled(a)
           /\ ~stats[a].overlap
           /\ stats[a].arrivedTicks = 0
           /\ stats[a].arrivedGrants >= 1)
          => credits[a] = <<stats[a].granted>>

C5_Witness ==
    /\ initial["A"] = <<>>
    /\ stats["A"].arrivedGrants = 2 /\ stats["A"].granted = 2
    /\ ~stats["A"].overlap /\ Settled("A")
    /\ last.kind = "grant" /\ last.solo /\ last.pre = <<1>> /\ last.post = <<2>>

\* C6: after non-overlapping Grants and Ticks on an account that started at
\* B0, GET /credits/:uid returns B0 plus the granted amounts minus the number
\* of Ticks that returned exhausted = false.
C6_BalanceIsSumOfDeltas ==
    (/\ last.kind = "credits" /\ last.pc = "done"
     /\ HasInitial(last.uid)
     /\ ~stats[last.uid].overlap)
    => last.resp.val = initial[last.uid][1] + stats[last.uid].granted
                         - stats[last.uid].okTicks

C6_Witness ==
    /\ last.kind = "credits" /\ last.pc = "done"
    /\ HasInitial(last.uid)
    /\ ~stats[last.uid].overlap
    /\ stats[last.uid].granted = 1
    /\ stats[last.uid].okTicks = 1

\* C7: a Tick or a GET /credits/:uid for an account with no balance record
\* ends in a NotFound outcome reported to the caller and changes no record.
C7_NotFound ==
    (/\ last.kind \in {"tick", "credits"}
     /\ last.pc \in {"done", "thrown"}
     /\ ~last.data.found /\ last.post = <<>>)
    => last.resp.kind = "NotFound" /\ last.pre = <<>>

\* C8: a Grant with a negative amount is rejected with InvalidArgument and
\* changes no balance record.
C8_NegativeGrantRejected ==
    (last.kind = "grant" /\ last.seconds < 0)
    => last.resp.kind = "InvalidArgument" /\ ~last.applied

\* C9: a storage failure in Tick or Grant ends the call in a StorageError
\* outcome; exhausted = false and "Credits added" are answered only when the
\* balance change was applied.
C9_StorageFailureSurfaces ==
    /\ last.fault => last.resp.kind = "StorageError"
    /\ (last.resp = Resp("exhausted", 0) \/ last.resp.kind = "Credits added")
       => last.applied

\* C10 as stated: every account is created with status PENDING and balance 0.
C10_CreatedPendingZero ==
    \A r \in Requests :
        r.kind \in {"signup", "createAdmin"}
        => /\ r.status \in {"NONE", "PENDING"}
           /\ (r.pc = "done" /\ r.applied) => r.post[Len(r.post)] = 0

\* C10 as the code has it: POST /signup writes status PENDING and a balance
\* of 0, POST /create-admin writes status ACTIVE and a balance of 999999;
\* neither writes any other status or balance.
C10_CreationValues ==
    \A r \in Requests :
        /\ r.kind = "signup"
           => /\ r.status \in {"NONE", "PENDING"}
              /\ (r.pc = "done" /\ r.applied) => r.post[Len(r.post)] = 0
        /\ r.kind = "createAdmin"
           => /\ r.status \in {"NONE", "ACTIVE"}
              /\ (r.pc = "done" /\ r.applied) => r.post[Len(r.post)] = 999999
        /\ (r.kind \in {"signup", "createAdmin"} /\ r.pc \in {"insertCredits", "done"}
            /\ r.uid \in Accounts)
           => r.status # "NONE"

C10_Witness ==
    /\ last.kind = "createAdmin" /\ last.pc = "done" /\ last.applied
    /\ last.status = "ACTIVE"
    /\ \E a \in Accounts : user_meta[a] = "PENDING" /\ credits[a] = <<0>>

\* C11: every Tick, Grant and GET /credits request receives a response: no
\* handler ends without one, whatever the account, a missing balance record
\* included.  (A handler that has ended takes no further step, so a request
\* it left unanswered stays pending for ever.)
C11_EveryRequestAnswered ==
    \A a \in Accounts :
        (last.uid = a /\ last.kind \in {"tick", "grant", "credits"})
        => last.resp.kind # "none"

\* C12: in every state the number of Ticks that returned exhausted = false
\* on an account is at most its initial balance plus the amounts granted so
\* far, under any interleaving.
C12_NoOverConsumption ==
    \A a \in Accounts :
        HasInitial(a) => stats[a].okTicks <= initial[a][1] + stats[a].granted

\* C13: every account has at most one credits row, and two concurrent Grants
\* of a and b on an account with no row leave one row of value a + b.
C13_OneRecordPerAccount ==
    \A a \in Accounts :
        /\ Len(credits[a]) <= 1
        /\ (/\ initial[a] = <<>> /\ Settled(a)
            /\ stats[a].arrivedGrants = 2
            /\ stats[a].arrivedTicks = 0)
           => credits[a] = <<stats[a].granted>>

\* C14: a Tick or Grant for one account changes no other account's credits
\* rows, and while a Tick or Grant on one account has read and not yet
\* written, every request on another account can take its next step (and a
\* request in its last step ends with it).
StepOf(i) ==
    TickRead(i) \/ TickWrite(i) \/ GrantRead(i) \/ GrantWrite(i) \/ CreditsRead(i)

PendingWrite(i) == reqs[i].kind \in {"tick", "grant"} /\ reqs[i].pc = "write"

C14_NotBlocked ==
    \A i, j \in 1..Len(reqs) :
        (PendingWrite(i) /\ reqs[j].uid # reqs[i].uid) => ENABLED StepOf(j)

C14_Frame ==
    \A b \in Accounts :
        credits'[b] # credits[b]
        => /\ Len(reqs') < Len(reqs)
           /\ last'.uid = b /\ last'.kind \in {"tick", "grant"}
           /\ \E i \in 1..Len(reqs) : reqs[i].uid = b /\ PendingWrite(i)

C14_Isolation == [](C14_NotBlocked) /\ [][C14_Frame]_vars

C14_Witness ==
    /\ \E i \in 1..Len(reqs) : PendingWrite(i) /\ reqs[i].uid = "A"
    /\ InFlightOn("B") = {}
    /\ stats["B"].arrivedGrants = 1 /\ stats["B"].arrivedTicks = 1
    /\ last.uid = "B" /\ last.kind = "tick" /\ last.pc = "done" /\ last.applied
    /\ credits["A"] = initial["A"]

\* ------------------------------------------------------ login and approval
ApprovedStatus == "ACTIVE"

LoginRefusedPendingOnly(status) == status = "PENDING"
\* /login: if (meta.status === "PENDING") return ...; if (meta.status === "BLOCKED") return ...
LoginRefused(status) == status \in {"PENDING", "BLOCKED"}

StartLogin ==
    /\ nreq < MaxReqs
    /\ nreq' = nreq + 1
    /\ reqs' = Append(reqs, NewReq("login", NoUid, 0, "signIn", <<>>))
    /\ UNCHANGED <<credits, user_meta, authUsers, adminExists, uniqueKey, initial,
                   last, stats>>
StartApprove(u) == Arrive("approve", u, 0, "update")

\* The /login handler ends after reading user_meta.
LoginEnds(i, resp, status, failed) ==
    /\ last' = [reqs[i] EXCEPT !.pc = "done", !.resp = resp, !.status = status,
                               !.fault = failed]
    /\ reqs' = Remove(reqs, i)
    /\ UNCHANGED stats

\* supabase.auth.signInWithPassword: an error (400), or the user of the credentials.
LoginAuth(i) ==
    /\ i \in 1..Len(reqs)
    /\ reqs[i].kind = "login" /\ reqs[i].pc = "signIn"
    /\ \/ Finish(i, "done", Resp("Invalid login", 400), NoData, FALSE, <<>>)
       \/ /\ \E u \in authUsers :
                reqs' = [reqs EXCEPT ![i].uid = u, ![i].pc = "readMeta"]
          /\ UNCHANGED <<last, stats>>
    /\ UNCHANGED <<credits, user_meta, authUsers, adminExists, uniqueKey, initial, nreq>>

\* /login, the select on user_meta and the tests of its result.
LoginMeta(i) ==
    /\ i \in 1..Len(reqs)
    /\ reqs[i].kind = "login" /\ reqs[i].pc = "readMeta"
    /\ LET status == user_meta[reqs[i].uid]
       IN  IF status = "NONE"
           THEN \* .single() finds no row: metaErr
                LoginEnds(i, Resp("User profile not found", 0), status, FALSE)
           ELSE IF LoginRefused(status)
           THEN LoginEnds(i, Resp(IF status = "PENDING" THEN "Pending approval"
                                  ELSE "Blocked by admin", 0), status, FALSE)
           ELSE /\ reqs' = [reqs EXCEPT ![i].pc = "readCredits", ![i].status = status]
                /\ UNCHANGED <<last, stats>>
    /\ UNCHANGED <<credits, user_meta, authUsers, adminExists, uniqueKey, initial, nreq>>

\* /login, the select on user_meta fails: metaErr
LoginMetaFail(i) ==
    /\ i \in 1..Len(reqs)
    /\ reqs[i].kind = "login" /\ reqs[i].pc = "readMeta"
    /\ LoginEnds(i, Resp("User profile not found", 0), "NONE", TRUE)
    /\ UNCHANGED <<credits, user_meta, authUsers, adminExists, uniqueKey, initial, nreq>>

\* /login, the select on credits and the response with the token.
LoginCredits(i) ==
    /\ i \in 1..Len(reqs)
    /\ reqs[i].kind = "login" /\ reqs[i].pc = "readCredits"
    /\ LET u == reqs[i].uid
           credit == SelectSingle(credits[u])
       IN  Finish(i, "done", Resp("token", credit.remaining_seconds), credit, FALSE,
                  credits[u])
    /\ UNCHANGED <<credits, user_meta, authUsers, adminExists, uniqueKey, initial, nreq>>

\* POST /admin/approve: .update({ status: "ACTIVE" }).eq("id", userId), the response
Approve(i) ==
    /\ i \in 1..Len(reqs)
    /\ reqs[i].kind = "approve" /\ reqs[i].pc = "update"
    /\ LET u == reqs[i].uid
       IN  /\ user_meta' = [user_meta EXCEPT ![u] = IF @ = "NONE" THEN @
                                                    ELSE ApprovedStatus]
           /\ Finish(i, "done", Resp("Approved", 0), NoData, user_meta[u] # "NONE",
                     credits[u])
    /\ UNCHANGED <<credits, authUsers, adminExists, uniqueKey, initial, nreq>>

\* The account "A" exists with some status and a balance of 0, or not at all.
InitLogin ==
    /\ \E st \in {"NONE", "PENDING", "ACTIVE", "BLOCKED"} :
          /\ user_meta = [a \in Accounts |-> IF a = "A" THEN st ELSE "NONE"]
          /\ credits = [a \in Accounts |->
                           IF a = "A" /\ st # "NONE" THEN <<0>> ELSE <<>>]
          /\ authUsers = IF st = "NONE" THEN {} ELSE {"A"}
    /\ adminExists = FALSE
    /\ uniqueKey = "unknown"
    /\ initial = credits
    /\ reqs = <<>>
    /\ last = Idle
    /\ stats = [a \in Accounts |-> NoStats]
    /\ nreq = 0

NextLogin ==
    \/ StartLogin
    \/ \E u \in Accounts : StartApprove(u)
    \/ StartSignup
    \/ StartCreateAdmin
    \/ \E i \in 1..MaxReqs : LoginAuth(i)
    \/ \E i \in 1..MaxReqs : LoginMeta(i)
    \/ \E i \in 1..MaxReqs : LoginMetaFail(i)
    \/ \E i \in 1..MaxReqs : LoginCredits(i)
    \/ \E i \in 1..MaxReqs : Approve(i)
    \/ \E i \in 1..MaxReqs : SignupAuth(i)
    \/ \E i \in 1..MaxReqs : SignupMeta(i)
    \/ \E i \in 1..MaxReqs : SignupInsertCredits(i)
    \/ \E i \in 1..MaxReqs : AdminAuth(i)
    \/ \E i \in 1..MaxReqs : AdminMeta(i)
    \/ \E i \in 1..MaxReqs : AdminInsertCredits(i)

SpecLogin == InitLogin /\ [][NextLogin]_vars

NoLogin == {"NONE", "PENDING", "BLOCKED"}

\* A token is in a response, or about to be, only after a status read that
\* found a profile row whose status is neither PENDING nor BLOCKED.
TokenOnlyAfterStatusCheck ==
    \A r \in Requests :
        (r.kind = "login" /\ (r.pc = "readCredits" \/ r.resp.kind = "token"))
        => r.status \notin NoLogin

ApproveStepOn(a) ==
    /\ \E i \in 1..Len(reqs) :
          reqs[i].kind = "approve" /\ reqs[i].uid = a /\ reqs[i].pc = "update"
    /\ Len(reqs') < Len(reqs)
    /\ last'.kind = "approve" /\ last'.uid = a
    /\ user_meta'[a] = "ACTIVE"

CreateAdminStepOn(a) ==
    \E i \in 1..Len(reqs) :
        /\ reqs[i].kind = "createAdmin" /\ reqs[i].uid = a
        /\ reqs[i].pc = "insertMeta"
        /\ user_meta[a] = "NONE" /\ user_meta'[a] = "ACTIVE"

BecomesAbleToLogin(a) == user_meta[a] \in NoLogin /\ user_meta'[a] \notin NoLogin

\* C15 as stated: no token for an account whose status read found PENDING,
\* BLOCKED or no readable profile row, and an account becomes able to obtain
\* a token only by an admin approve that sets its status to ACTIVE.
C15_TokenOnlyAfterApprove ==
    /\ [](TokenOnlyAfterStatusCheck)
    /\ [][\A a \in Accounts : BecomesAbleToLogin(a) => ApproveStepOn(a)]_vars

\* C15 as the code has it: the same, except that the account POST
\* /create-admin creates is ACTIVE from its creation and needs no approve.
C15_TokenOnlyWhenNotPendingOrBlocked ==
    /\ [](TokenOnlyAfterStatusCheck)
    /\ [][\A a \in Accounts :
            BecomesAbleToLogin(a) => (ApproveStepOn(a) \/ CreateAdminStepOn(a))]_vars

C15_Witness ==
    /\ ~adminExists
    /\ last.kind = "login" /\ last.uid = "B" /\ last.resp.kind = "token"
    /\ last.status = "ACTIVE" /\ user_meta["B"] = "ACTIVE"
====
